---- MODULE Spec2Model ----
(***************************************************************************)
(* Allocation and SLA engine of the FedEx DCA platform.                    *)
(*                                                                         *)
(* The repository holds two servers that both listen on port 3001, so one  *)
(* of them runs at a time:                                                 *)
(*   "dca-api"  - src/dca-api.js: scored allocation at ingest, SLA         *)
(*                deadlines, interactions, escalation, resolution, audit.  *)
(*   "part_000" - src/unnamed/part_000: queue based intake, deferred       *)
(*                drain (allocatePendingCases) and manual allocation.      *)
(* The variable server says which one was started.  Numbers that are       *)
(* fractions in the source are scaled integers here: rates and scores in   *)
(* hundredths, recovery probability in thousandths, time in minutes.       *)
(* Timestamps stored only for display (createdAt, audit timestamps) are    *)
(* left out.                                                               *)
(***************************************************************************)
EXTENDS Integers, Sequences, FiniteSets, TLC

VARIABLES
    server,           \* which server file is running
    clock,            \* new Date(): minutes since the local midnight of day 0
    caseIdCounter,    \* let caseIdCounter = 1000
    caseRegistry,     \* Map caseId -> case object
    dcaProfiles,      \* dca-api.js: Map dcaId -> profile (mutable part)
    dcaWorkload,      \* part_000: dcaId -> { capacity, current, cases }
    allocationQueue,  \* part_000: pending case ids
    timers,           \* part_000: setTimeout callbacks not yet run
    drain,            \* part_000: position inside allocatePendingCases
    response          \* what the last request handler answered

vars == <<server, clock, caseIdCounter, caseRegistry, dcaProfiles, dcaWorkload,
          allocationQueue, timers, drain, response>>

----------------------------------------------------------------------------
(* Bounds of the model *)

\* number of cases the model ingests into dca-api.js
MaxCases == 3
\* number of cases the model ingests into part_000
MaxQueueCases == 4
\* the registries are cut to their first NumAgents entries
NumAgents == 2
\* capacity of every dca-api.js profile: 5 in the source registry, scaled down
\* so that a few ingests fill every agent
Capacity == 1
\* capacity of every part_000 workload entry: 5 in the source registry, scaled
\* down to one more than the seeded load of DCA-001
QueueCapacity == 3
\* longest audit trail of one case
MaxTrail == 4
\* audit entries of all cases together, beyond which no request is logged
MaxAudit == 6
\* slaBreaches stops counting here
MaxBreaches == 2

----------------------------------------------------------------------------
(* Helpers *)

Min(a, b) == IF a < b THEN a ELSE b
Max(a, b) == IF a > b THEN a ELSE b

Range(s) == {s[i] : i \in 1..Len(s)}

\* a slip: the search never finds the id
IndexOfNever(s, x) == 0

\* Array.prototype.indexOf, 0 when absent (JavaScript answers -1)
IndexOf(s, x) ==
    IF x \in Range(s) THEN CHOOSE i \in 1..Len(s) : s[i] = x /\ \A j \in 1..(i-1) : s[j] # x
    ELSE 0

\* a slip: the splice is left out
RemoveNothing(s, i) == s

\* Array.prototype.splice(i, 1)
RemoveAt(s, i) == SubSeq(s, 1, i-1) \o SubSeq(s, i+1, Len(s))

\* JavaScript null for an id or a name
Null == "null"

\* the caseIdCounter value before the first ingest
FirstCounter == 1000

CaseIds == DOMAIN caseRegistry

----------------------------------------------------------------------------
(* Registry data *)

\* insertion order of both registries
DcaOrder == <<"DCA-001", "DCA-002", "DCA-003", "DCA-004">>

DcaIds == {DcaOrder[i] : i \in 1..NumAgents}

historicalRecoveryRate(d) ==
    CASE d = "DCA-001" -> 82 [] d = "DCA-002" -> 78 [] d = "DCA-003" -> 75 [] OTHER -> 80

specialization(d) ==
    CASE d = "DCA-001" -> {"High-Value", "Corporate"}
      [] d = "DCA-002" -> {"Small-Medium", "Individuals"}
      [] d = "DCA-003" -> {"Disputed", "Complex"}
      [] OTHER -> {"Collections", "Escalations"}

geoRegion(d) ==
    CASE d = "DCA-001" -> "North-East" [] d = "DCA-002" -> "South-West"
      [] d = "DCA-003" -> "Central" [] OTHER -> "West-Coast"

complianceScore(d) ==
    CASE d = "DCA-001" -> 95 [] d = "DCA-002" -> 88 [] d = "DCA-003" -> 92 [] OTHER -> 90

InitSlaBreaches(d) == IF d = "DCA-002" THEN 1 ELSE 0

InitRecoveredAmount(d) ==
    CASE d = "DCA-001" -> 450000 [] d = "DCA-002" -> 320000
      [] d = "DCA-003" -> 280000 [] OTHER -> 410000

InitDcaProfiles ==
    [d \in DcaIds |-> [capacity |-> Capacity, currentLoad |-> 0, cases |-> <<>>,
                       slaBreaches |-> InitSlaBreaches(d),
                       recoveredAmount |-> InitRecoveredAmount(d)]]

\* part_000: 'DCA-001': { capacity: 5, current: 2, cases: [] }, ...
InitCurrent(d) ==
    CASE d = "DCA-001" -> 2 [] d = "DCA-002" -> 1 [] d = "DCA-003" -> 3 [] OTHER -> 0

InitDcaWorkload ==
    [d \in DcaIds |-> [capacity |-> QueueCapacity, current |-> InitCurrent(d), cases |-> <<>>]]

slaConfig ==
    [CRITICAL |-> [firstActionHours |-> 24, followUpDays |-> 2, resolutionDays |-> 7],
     HIGH     |-> [firstActionHours |-> 48, followUpDays |-> 3, resolutionDays |-> 15],
     MEDIUM   |-> [firstActionHours |-> 72, followUpDays |-> 4, resolutionDays |-> 20],
     LOW      |-> [firstActionHours |-> 96, followUpDays |-> 7, resolutionDays |-> 30]]

\* slaDeadlines: null
NullDeadlines == [firstAction |-> -1, followUp |-> -1, resolution |-> -1]

PriorityNames == <<"CRITICAL", "HIGH", "MEDIUM", "LOW">>

----------------------------------------------------------------------------
(* Inputs the requests are drawn from *)

IngestBodies ==
    {[debtAmount |-> 150000, debtAge |-> 10, geoRegion |-> "North-East"],
     [debtAmount |-> 30000,  debtAge |-> 65, geoRegion |-> "South-West"]}

\* Math.random() * 0.15 - 0.075, in thousandths
NoiseDraws == {0}

\* the instants at which requests arrive: 18:30 of day 0 (the server's start),
\* 18:30 of day 7 and 20:00 of day 7
Instants == {1110, 11190, 11280}
StartClock == CHOOSE t \in Instants : \A u \in Instants : t <= u

----------------------------------------------------------------------------
(* dca-api.js: risk and recovery probability *)

assessRisk(amount, age) ==
    IF amount > 100000 \/ age > 180 THEN 0
    ELSE IF amount > 50000 \/ age > 120 THEN 1
    ELSE IF amount > 20000 \/ age > 60 THEN 2
    ELSE 3

\* thousandths; noise is the Math.random draw
calculateRecoveryProbability(amount, age, noise) ==
    LET ageFactor == Min((age * 1000) \div 360, 500)
        amountFactor == Min(amount \div 500, 400)
        base == ((1000 - ageFactor) * (1000 - amountFactor)) \div 1000
    IN  Max(200, Min(1000, base + noise))

----------------------------------------------------------------------------
(* dca-api.js: allocateCaseIntelligently *)

\* a slip: an agent whose load equals its capacity still counts as free
HasCapacityOffByOne(dca) == dca.currentLoad <= dca.capacity

\* if (dca.currentLoad >= dca.capacity) return;
HasCapacity(dca) == dca.currentLoad < dca.capacity

\* hundredths
specializationMatch(caseData, d) ==
    IF caseData.priority = "CRITICAL" /\ "High-Value" \in specialization(d) THEN 100 ELSE 70

geoMatch(caseData, d) == IF geoRegion(d) = caseData.geoRegion THEN 100 ELSE 80

loadPenalty(dca) == (dca.currentLoad * 100) \div dca.capacity

complianceRisk(d) == 100 - complianceScore(d)

\* ten-thousandths: weights w1..w5 are 30, 25, 20, 15, 10 hundredths
dcaScore(caseData, d, dca) ==
    30 * historicalRecoveryRate(d) + 25 * specializationMatch(caseData, d)
      + 20 * geoMatch(caseData, d) - 15 * loadPenalty(dca) - 10 * complianceRisk(d)

\* tenths
priorityFactor(priority) ==
    CASE priority = "CRITICAL" -> 15 [] priority = "HIGH" -> 13
      [] priority = "MEDIUM" -> 10 [] OTHER -> 8

\* units of 10^-8: riskIndex * dcaScore * priorityFactor
finalScore(caseData, d, dca) ==
    caseData.recoveryProbability * dcaScore(caseData, d, dca) * priorityFactor(caseData.priority)

\* Number.prototype.toFixed(digits) of a value in units of 10^-8, as an integer
\* count of 10^-digits (round half up; the values are positive)
ToFixed4(x) == (x + 5000) \div 10000
ToFixed6(x) == (x + 50) \div 100

\* a slip: the candidate is recorded before the capacity test
RECURSIVE ScanProfilesListsAll(_, _, _, _)
ScanProfilesListsAll(caseData, profiles, i, acc) ==
    IF i > NumAgents THEN acc
    ELSE LET d == DcaOrder[i]
             dca == profiles[d]
             fs == finalScore(caseData, d, dca)
             detail == [dcaId |-> d,
                        dcaScore |-> dcaScore(caseData, d, dca),
                        priorityFactor |-> priorityFactor(caseData.priority),
                        finalScore |-> ToFixed6(fs)]
             listed == [acc EXCEPT !.candidateDetails = Append(@, detail)]
             better == acc.bestDCA = Null \/ fs > acc.bestScore
         IN  IF ~HasCapacity(dca) THEN ScanProfilesListsAll(caseData, profiles, i + 1, listed)
             ELSE ScanProfilesListsAll(caseData, profiles, i + 1,
                          [bestDCA |-> IF better THEN d ELSE acc.bestDCA,
                           bestScore |-> IF better THEN fs ELSE acc.bestScore,
                           candidateDetails |-> listed.candidateDetails])

\* the forEach over dcaProfiles, from entry i on; acc carries bestDCA, bestScore
\* and candidateDetails
RECURSIVE ScanProfiles(_, _, _, _)
ScanProfiles(caseData, profiles, i, acc) ==
    IF i > NumAgents THEN acc
    ELSE LET d == DcaOrder[i]
             dca == profiles[d]
         IN  IF ~HasCapacity(dca) THEN ScanProfiles(caseData, profiles, i + 1, acc)
             ELSE LET fs == finalScore(caseData, d, dca)
                      detail == [dcaId |-> d,
                                 dcaScore |-> dcaScore(caseData, d, dca),
                                 priorityFactor |-> priorityFactor(caseData.priority),
                                 finalScore |-> ToFixed6(fs)]
                      better == acc.bestDCA = Null \/ fs > acc.bestScore
                  IN  ScanProfiles(caseData, profiles, i + 1,
                          [bestDCA |-> IF better THEN d ELSE acc.bestDCA,
                           bestScore |-> IF better THEN fs ELSE acc.bestScore,
                           candidateDetails |-> Append(acc.candidateDetails, detail)])

\* a slip: the follow-up offset is taken in hours
DeadlinesAtFollowUpInHours(now, riskKey) ==
    LET sla == slaConfig[riskKey]
    IN  [firstAction |-> now + sla.firstActionHours * 60,
         followUp |-> now + sla.followUpDays * 60,
         resolution |-> now + sla.resolutionDays * 24 * 60]

\* a slip: every case gets the deadlines of a CRITICAL one
DeadlinesAtCritical(now, riskKey) ==
    LET sla == slaConfig["CRITICAL"]
    IN  [firstAction |-> now + sla.firstActionHours * 60,
         followUp |-> now + sla.followUpDays * 24 * 60,
         resolution |-> now + sla.resolutionDays * 24 * 60]

\* new Date(now + offset): the three deadlines of a risk key
DeadlinesAt(now, riskKey) ==
    LET sla == slaConfig[riskKey]
    IN  [firstAction |-> now + sla.firstActionHours * 60,
         followUp |-> now + sla.followUpDays * 24 * 60,
         resolution |-> now + sla.resolutionDays * 24 * 60]

\* a slip: the deadlines are stamped before the test of bestDCA, so a case that
\* found no agent carries deadlines too
allocateCaseStampsFirst(caseData, profiles, now) ==
    LET scan == ScanProfiles(caseData, profiles, 1,
                    [bestDCA |-> Null, bestScore |-> 0, candidateDetails |-> <<>>])
        best == scan.bestDCA
        riskKey == PriorityNames[assessRisk(caseData.debtAmount, caseData.debtAge) + 1]
        stamped == [caseData EXCEPT !.slaDeadlines = DeadlinesAt(now, riskKey)]
    IN  IF best = Null THEN [case |-> stamped, profiles |-> profiles]
        ELSE [case |-> [stamped EXCEPT
                          !.allocatedDCA = best,
                          !.allocationScore = ToFixed4(scan.bestScore),
                          !.allocationCandidates = scan.candidateDetails,
                          !.allocationChosen = [dcaId |-> best, score |-> ToFixed6(scan.bestScore)],
                          !.status = "ALLOCATED",
                          !.auditTrail = Append(@, [action |-> "CASE_ALLOCATED", user |-> "SYSTEM",
                                                    details |-> <<best, ToFixed4(scan.bestScore)>>])],
              profiles |-> [profiles EXCEPT
                          ![best].currentLoad = @ + 1,
                          ![best].cases = Append(@, caseData.caseId)]]

\* the whole function: the case and the profiles it leaves behind
allocateCaseIntelligently(caseData, profiles, now) ==
    LET scan == ScanProfiles(caseData, profiles, 1,
                    [bestDCA |-> Null, bestScore |-> 0, candidateDetails |-> <<>>])
        best == scan.bestDCA
        riskKey == PriorityNames[assessRisk(caseData.debtAmount, caseData.debtAge) + 1]
    IN  IF best = Null THEN [case |-> caseData, profiles |-> profiles]
        ELSE [case |-> [caseData EXCEPT
                          !.allocatedDCA = best,
                          !.allocationScore = ToFixed4(scan.bestScore),
                          !.allocationCandidates = scan.candidateDetails,
                          !.allocationChosen = [dcaId |-> best, score |-> ToFixed6(scan.bestScore)],
                          !.status = "ALLOCATED",
                          !.slaDeadlines = DeadlinesAt(now, riskKey),
                          !.auditTrail = Append(@, [action |-> "CASE_ALLOCATED", user |-> "SYSTEM",
                                                    details |-> <<best, ToFixed4(scan.bestScore)>>])],
              profiles |-> [profiles EXCEPT
                          ![best].currentLoad = @ + 1,
                          ![best].cases = Append(@, caseData.caseId)]]

\* the case object POST /api/cases/ingest builds
NewCase(caseId, body, noise) ==
    LET riskLevel == assessRisk(body.debtAmount, body.debtAge)
    IN  [caseId |-> caseId,
         debtAmount |-> body.debtAmount,
         debtAge |-> body.debtAge,
         geoRegion |-> body.geoRegion,
         status |-> "RECEIVED",
         riskLevel |-> riskLevel,
         recoveryProbability |-> calculateRecoveryProbability(body.debtAmount, body.debtAge, noise),
         priority |-> PriorityNames[riskLevel + 1],
         allocatedDCA |-> Null,
         allocationScore |-> -1,
         allocationCandidates |-> <<>>,
         allocationChosen |-> [dcaId |-> Null, score |-> -1],
         slaDeadlines |-> NullDeadlines,
         slaBreached |-> FALSE,
         interactions |-> <<>>,
         documents |-> <<>>,
         disputes |-> <<>>,
         auditTrail |-> <<[action |-> "CASE_CREATED", user |-> "fedex@company.com",
                           details |-> <<>>]>>,
         resolutionType |-> Null,
         recoveredAmount |-> 0]

----------------------------------------------------------------------------
(* dca-api.js: request handlers *)

Api == server = "dca-api"

\* POST /api/cases/ingest
Ingest(body, noise) ==
    /\ Api
    /\ caseIdCounter < FirstCounter + MaxCases
    /\ LET caseId == caseIdCounter + 1
           r == allocateCaseIntelligently(NewCase(caseId, body, noise), dcaProfiles, clock)
       IN  /\ caseIdCounter' = caseId
           /\ caseRegistry' = caseRegistry @@ (caseId :> r.case)
           /\ dcaProfiles' = r.profiles
           /\ response' = [code |-> 201, body |-> <<>>]
    /\ UNCHANGED <<server, clock, dcaWorkload, allocationQueue, timers, drain>>

\* the ids a request may name: every stored case and one id never issued
RequestIds == CaseIds \cup {FirstCounter}

\* a slip: the early return answers 200
NotFoundAnswersOk(caseId) ==
    /\ caseId \notin CaseIds
    /\ response' = [code |-> 200, body |-> <<>>]
    /\ UNCHANGED <<server, clock, caseIdCounter, caseRegistry, dcaProfiles, dcaWorkload,
                   allocationQueue, timers, drain>>

\* res.status(404).json({ error: 'Case not found' })
NotFound(caseId) ==
    /\ caseId \notin CaseIds
    /\ response' = [code |-> 404, body |-> <<>>]
    /\ UNCHANGED <<server, clock, caseIdCounter, caseRegistry, dcaProfiles, dcaWorkload,
                   allocationQueue, timers, drain>>

\* GET /api/cases/:caseId of either server
GetCase(caseId) ==
    /\ server = "part_000" => drain = "idle"
    /\ \/ NotFound(caseId)
       \/ /\ caseId \in CaseIds
          /\ response' = [code |-> 200, body |-> <<>>]
          /\ UNCHANGED <<server, clock, caseIdCounter, caseRegistry, dcaProfiles, dcaWorkload,
                         allocationQueue, timers, drain>>

\* new Date().getHours() between 9 and 18
isWithinPermittedHours(now) ==
    LET hour == (now \div 60) % 24
    IN  hour >= 9 /\ hour <= 18

InteractionBodies ==
    {[type |-> "CALL", result |-> "SUCCESS"], [type |-> "EMAIL", result |-> "DISPUTE"]}

\* audit entries over all cases
RECURSIVE AuditCount(_, _)
AuditCount(registry, ids) ==
    IF ids = {} THEN 0
    ELSE LET i == CHOOSE x \in ids : TRUE
         IN  Len(registry[i].auditTrail) + AuditCount(registry, ids \ {i})

\* the model logs a request on caseId only while the trails stay within bounds
WithinTrail(registry, caseId) ==
    /\ Len(registry[caseId].auditTrail) <= MaxTrail
    /\ AuditCount(registry, DOMAIN registry) <= MaxAudit

\* a slip: the SOP_VIOLATION entry overwrites the newest entry of the trail
LoggedInteractionOverwrites(caseData, type, result, now) ==
    LET sop == type = "CALL" /\ ~isWithinPermittedHours(now)
        trail1 == IF sop
                  THEN [caseData.auditTrail EXCEPT ![Len(caseData.auditTrail)] =
                              [action |-> "SOP_VIOLATION", user |-> "dca1@company.com",
                               details |-> <<>>]]
                  ELSE caseData.auditTrail
    IN  [caseData EXCEPT
           !.interactions = Append(@, [type |-> type, result |-> result, dcaId |-> "DCA-001"]),
           !.disputes = IF result = "DISPUTE" THEN Append(@, [status |-> "PENDING"]) ELSE @,
           !.status = "IN_PROGRESS",
           !.auditTrail = Append(trail1, [action |-> "INTERACTION_LOGGED",
                                          user |-> "dca1@company.com",
                                          details |-> <<type, result>>])]

\* a slip: every interaction opens a dispute
LoggedInteractionAlwaysDisputes(caseData, type, result, now) ==
    LET sop == type = "CALL" /\ ~isWithinPermittedHours(now)
        trail1 == IF sop
                  THEN Append(caseData.auditTrail,
                              [action |-> "SOP_VIOLATION", user |-> "dca1@company.com",
                               details |-> <<>>])
                  ELSE caseData.auditTrail
    IN  [caseData EXCEPT
           !.interactions = Append(@, [type |-> type, result |-> result, dcaId |-> "DCA-001"]),
           !.disputes = Append(@, [status |-> "PENDING"]),
           !.status = "IN_PROGRESS",
           !.auditTrail = Append(trail1, [action |-> "INTERACTION_LOGGED",
                                          user |-> "dca1@company.com",
                                          details |-> <<type, result>>])]

\* what POST /api/cases/:caseId/interaction leaves of the case
LoggedInteraction(caseData, type, result, now) ==
    LET sop == type = "CALL" /\ ~isWithinPermittedHours(now)
        trail1 == IF sop
                  THEN Append(caseData.auditTrail,
                              [action |-> "SOP_VIOLATION", user |-> "dca1@company.com",
                               details |-> <<>>])
                  ELSE caseData.auditTrail
    IN  [caseData EXCEPT
           !.interactions = Append(@, [type |-> type, result |-> result, dcaId |-> "DCA-001"]),
           !.disputes = IF result = "DISPUTE" THEN Append(@, [status |-> "PENDING"]) ELSE @,
           !.status = "IN_PROGRESS",
           !.auditTrail = Append(trail1, [action |-> "INTERACTION_LOGGED",
                                          user |-> "dca1@company.com",
                                          details |-> <<type, result>>])]

\* POST /api/cases/:caseId/interaction
LogInteraction(caseId, body) ==
    /\ Api
    /\ \/ NotFound(caseId)
       \/ /\ caseId \in CaseIds
          /\ LET after == LoggedInteraction(caseRegistry[caseId], body.type, body.result, clock)
             IN  caseRegistry' = [caseRegistry EXCEPT ![caseId] = after]
          /\ WithinTrail(caseRegistry', caseId)
          /\ response' = [code |-> 200, body |-> <<>>]
          /\ UNCHANGED <<server, clock, caseIdCounter, dcaProfiles, dcaWorkload,
                         allocationQueue, timers, drain>>

\* POST /api/cases/:caseId/document
LogDocument(caseId) ==
    /\ Api
    /\ \/ NotFound(caseId)
       \/ /\ caseId \in CaseIds
          /\ caseRegistry' = [caseRegistry EXCEPT
                ![caseId].documents = Append(@, [type |-> "NOTE"]),
                ![caseId].auditTrail = Append(@, [action |-> "DOCUMENT_UPLOADED",
                                                  user |-> "dca1@company.com",
                                                  details |-> <<>>])]
          /\ WithinTrail(caseRegistry', caseId)
          /\ response' = [code |-> 200, body |-> <<>>]
          /\ UNCHANGED <<server, clock, caseIdCounter, dcaProfiles, dcaWorkload,
                         allocationQueue, timers, drain>>

\* Math.max(0, (resolution - now) / 3600000).toFixed(1), in tenths of an hour
HoursRemaining(caseData, now) ==
    (Max(0, caseData.slaDeadlines.resolution - now) * 10 + 30) \div 60

\* a slip: resolved cases are evaluated too
SlaWatchedAll(caseData) == caseData.slaDeadlines # NullDeadlines

\* the cases GET /api/sla/status looks at
SlaWatched(caseData) ==
    ~(caseData.status = "RESOLVED" \/ caseData.slaDeadlines = NullDeadlines)

\* a slip: breached already at the deadline itself
BreachedAtDeadline(caseData, now) == now >= caseData.slaDeadlines.resolution

\* const breached = now > new Date(caseData.slaDeadlines.resolution)
Breached(caseData, now) == now > caseData.slaDeadlines.resolution

\* the caseRegistry.forEach of GET /api/sla/status from case id i on; acc carries
\* the registry, the profiles and the slaStatus list
RECURSIVE ScanSla(_, _, _)
ScanSla(i, now, acc) ==
    IF i > caseIdCounter THEN acc
    ELSE LET caseData == acc.registry[i]
         IN  IF ~SlaWatched(caseData) THEN ScanSla(i + 1, now, acc)
             ELSE LET breached == Breached(caseData, now)
                      d == caseData.allocatedDCA
                      penalty == breached /\ d # Null /\ d \in DOMAIN acc.profiles
                  IN  ScanSla(i + 1, now,
                        [registry |-> IF breached
                                      THEN [acc.registry EXCEPT ![i].slaBreached = TRUE]
                                      ELSE acc.registry,
                         profiles |-> IF penalty
                                      THEN [acc.profiles EXCEPT ![d].slaBreaches = @ + 1]
                                      ELSE acc.profiles,
                         slaStatus |-> Append(acc.slaStatus,
                                         [caseId |-> caseData.caseId,
                                          allocatedDCA |-> d,
                                          breached |-> breached,
                                          hoursRemaining |-> HoursRemaining(caseData, now)])])

\* GET /api/sla/status
SlaStatus ==
    /\ Api
    /\ LET r == ScanSla(FirstCounter + 1, clock,
                    [registry |-> caseRegistry, profiles |-> dcaProfiles, slaStatus |-> <<>>])
       IN  /\ \A d \in DcaIds : r.profiles[d].slaBreaches <= MaxBreaches
           /\ caseRegistry' = r.registry
           /\ dcaProfiles' = r.profiles
           /\ response' = [code |-> 200, body |-> r.slaStatus]
    /\ UNCHANGED <<server, clock, caseIdCounter, dcaWorkload, allocationQueue, timers, drain>>

\* a slip: an escalation grants the case one more day to its resolution
EscalateExtendsDeadline(caseId) ==
    /\ Api
    /\ \/ NotFound(caseId)
       \/ /\ caseId \in CaseIds
          /\ caseRegistry' = [caseRegistry EXCEPT
                ![caseId].status = "ESCALATED",
                ![caseId].slaDeadlines.resolution = IF @ = -1 THEN @ ELSE @ + 24 * 60,
                ![caseId].auditTrail = Append(@, [action |-> "ESCALATION",
                                                  user |-> "dca1@company.com",
                                                  details |-> <<>>])]
          /\ WithinTrail(caseRegistry', caseId)
          /\ response' = [code |-> 200, body |-> <<>>]
          /\ UNCHANGED <<server, clock, caseIdCounter, dcaProfiles, dcaWorkload,
                         allocationQueue, timers, drain>>

\* POST /api/cases/:caseId/escalate
Escalate(caseId) ==
    /\ Api
    /\ \/ NotFound(caseId)
       \/ /\ caseId \in CaseIds
          /\ caseRegistry' = [caseRegistry EXCEPT
                ![caseId].status = "ESCALATED",
                ![caseId].auditTrail = Append(@, [action |-> "ESCALATION",
                                                  user |-> "dca1@company.com",
                                                  details |-> <<>>])]
          /\ WithinTrail(caseRegistry', caseId)
          /\ response' = [code |-> 200, body |-> <<>>]
          /\ UNCHANGED <<server, clock, caseIdCounter, dcaProfiles, dcaWorkload,
                         allocationQueue, timers, drain>>

ResolveBodies ==
    {[resolutionType |-> "RECOVERED", recoveredAmount |-> 5000],
     [resolutionType |-> "WRITTEN_OFF", recoveredAmount |-> 0],
     [resolutionType |-> "SETTLED", recoveredAmount |-> -5000]}

\* a slip: resolving gives the agent its slot back
ResolveReleases(caseId, body) ==
    /\ Api
    /\ \/ NotFound(caseId)
       \/ /\ caseId \in CaseIds
          /\ caseRegistry' = [caseRegistry EXCEPT
                ![caseId].status = "RESOLVED",
                ![caseId].resolutionType = body.resolutionType,
                ![caseId].recoveredAmount = body.recoveredAmount,
                ![caseId].auditTrail = Append(@, [action |-> "CASE_RESOLVED",
                                                  user |-> "dca1@company.com",
                                                  details |-> <<body.resolutionType,
                                                                body.recoveredAmount>>])]
          /\ WithinTrail(caseRegistry', caseId)
          /\ LET d == caseRegistry[caseId].allocatedDCA
                 at == IF d # Null /\ d \in DOMAIN dcaProfiles
                       THEN IndexOf(dcaProfiles[d].cases, caseId) ELSE 0
                 paid == IF d # Null /\ d \in DOMAIN dcaProfiles /\ body.recoveredAmount # 0
                         THEN [dcaProfiles EXCEPT ![d].recoveredAmount = @ + body.recoveredAmount]
                         ELSE dcaProfiles
             IN  dcaProfiles' =
                   IF at > 0
                   THEN [paid EXCEPT ![d].cases = RemoveAt(@, at), ![d].currentLoad = @ - 1]
                   ELSE paid
          /\ response' = [code |-> 200, body |-> <<>>]
          /\ UNCHANGED <<server, clock, caseIdCounter, dcaWorkload, allocationQueue,
                         timers, drain>>

\* POST /api/cases/:caseId/resolve
Resolve(caseId, body) ==
    /\ Api
    /\ \/ NotFound(caseId)
       \/ /\ caseId \in CaseIds
          /\ caseRegistry' = [caseRegistry EXCEPT
                ![caseId].status = "RESOLVED",
                ![caseId].resolutionType = body.resolutionType,
                ![caseId].recoveredAmount = body.recoveredAmount,
                ![caseId].auditTrail = Append(@, [action |-> "CASE_RESOLVED",
                                                  user |-> "dca1@company.com",
                                                  details |-> <<body.resolutionType,
                                                                body.recoveredAmount>>])]
          /\ WithinTrail(caseRegistry', caseId)
          /\ LET d == caseRegistry[caseId].allocatedDCA
             IN  dcaProfiles' =
                   IF d # Null /\ d \in DOMAIN dcaProfiles /\ body.recoveredAmount # 0
                   THEN [dcaProfiles EXCEPT ![d].recoveredAmount = @ + body.recoveredAmount]
                   ELSE dcaProfiles
          /\ response' = [code |-> 200, body |-> <<>>]
          /\ UNCHANGED <<server, clock, caseIdCounter, dcaWorkload, allocationQueue,
                         timers, drain>>

\* time passes between requests
Tick(t) ==
    /\ Api
    /\ t > clock
    /\ clock' = t
    /\ UNCHANGED <<server, caseIdCounter, caseRegistry, dcaProfiles, dcaWorkload,
                   allocationQueue, timers, drain, response>>

----------------------------------------------------------------------------
(* part_000: queue based intake *)

Queue == server = "part_000"

\* Math.random(), in ten-thousandths
RandomDraws == {0, 9999}

\* Math.random() inside prioritizeCase, in ten-thousandths
ProbabilityDraws == {0}

\* request bodies of part_000's ingest; debtAmount 0 stands for a missing field
QueueBodies ==
    {[debtAmount |-> 150000, debtAge |-> 10],
     [debtAmount |-> 1000, debtAge |-> 200],
     [debtAmount |-> 0, debtAge |-> 0]}

\* POST /api/cases/ingest
QueueIngest(body) ==
    /\ Queue
    /\ drain = "idle"
    /\ IF body.debtAmount = 0
       THEN /\ response' = [code |-> 400, body |-> <<>>]
            /\ UNCHANGED <<caseIdCounter, caseRegistry, allocationQueue, timers>>
       ELSE /\ caseIdCounter < FirstCounter + MaxQueueCases
            /\ LET caseId == caseIdCounter + 1
                   newCase == [caseId |-> caseId,
                               debtAmount |-> body.debtAmount,
                               debtAge |-> body.debtAge,
                               status |-> "RECEIVED",
                               priority |-> Null,
                               allocatedDCA |-> Null,
                               allocationScore |-> -1,
                               recoveryProbability |-> -1]
               IN  /\ caseIdCounter' = caseId
                   /\ caseRegistry' = caseRegistry @@ (caseId :> newCase)
                   /\ allocationQueue' = Append(allocationQueue, caseId)
            /\ timers' = timers + 1
            /\ response' = [code |-> 201, body |-> <<>>]
    /\ UNCHANGED <<server, clock, dcaProfiles, dcaWorkload, drain>>

\* the case prioritizeCase leaves behind; r is its Math.random draw and
\* recoveryProbability, (r * 0.4 + 0.5).toFixed(4), is in ten-thousandths
prioritizeCase(caseData, r) ==
    LET debtAmount == caseData.debtAmount
        debtAge == caseData.debtAge
        priority == IF debtAmount > 100000 THEN "CRITICAL"
                    ELSE IF debtAmount > 50000 \/ debtAge > 120 THEN "HIGH"
                    ELSE IF debtAmount > 20000 \/ debtAge > 60 THEN "MEDIUM"
                    ELSE "LOW"
    IN  [caseData EXCEPT
           !.priority = priority,
           !.recoveryProbability = 5000 + (r * 4 + 5) \div 10,
           !.status = "PRIORITIZED"]

\* if (workload.current >= workload.capacity) return;
HasSlot(workload) == workload.current < workload.capacity

\* tenths; { ... }[priority] || 1.0
priorityMultiplier(priority) ==
    CASE priority = "CRITICAL" -> 15 [] priority = "HIGH" -> 13
      [] priority = "MEDIUM" -> 10 [] priority = "LOW" -> 8 [] OTHER -> 10

\* ten-thousandths: (capacity - current) / capacity
capacityScore(workload) == ((workload.capacity - workload.current) * 10000) \div workload.capacity

\* units of 10^-9: capacityScore * priorityMultiplier * (Math.random() * 0.2 + 0.9)
queueFinalScore(workload, priority, r) ==
    capacityScore(workload) * priorityMultiplier(priority) * ((r * 2) \div 10 + 9000)

\* bestScore.toFixed(4) of a value in units of 10^-9, as a count of 10^-4
QueueToFixed4(x) == (x + 50000) \div 100000

\* a slip: finalScore >= bestScore, so of two equal scores the later entry wins
RECURSIVE ScanWorkloadLastWins(_, _, _, _, _)
ScanWorkloadLastWins(priority, workloads, jitter, i, acc) ==
    IF i > NumAgents THEN acc
    ELSE LET d == DcaOrder[i]
             workload == workloads[d]
         IN  IF ~HasSlot(workload)
             THEN ScanWorkloadLastWins(priority, workloads, jitter, i + 1, acc)
             ELSE LET fs == queueFinalScore(workload, priority, jitter[d])
                  IN  ScanWorkloadLastWins(priority, workloads, jitter, i + 1,
                        IF fs >= acc.bestScore THEN [bestDCA |-> d, bestScore |-> fs] ELSE acc)

\* the forEach over Object.entries(dcaWorkload) from entry i on; jitter gives each
\* entry its Math.random draw; acc carries bestDCA and bestScore
RECURSIVE ScanWorkload(_, _, _, _, _)
ScanWorkload(priority, workloads, jitter, i, acc) ==
    IF i > NumAgents THEN acc
    ELSE LET d == DcaOrder[i]
             workload == workloads[d]
         IN  IF ~HasSlot(workload) THEN ScanWorkload(priority, workloads, jitter, i + 1, acc)
             ELSE LET fs == queueFinalScore(workload, priority, jitter[d])
                  IN  ScanWorkload(priority, workloads, jitter, i + 1,
                        IF fs > acc.bestScore THEN [bestDCA |-> d, bestScore |-> fs] ELSE acc)

\* a slip: the case keeps the status it had
AllocatedCaseKeepsStatus(caseData, bestDCA, bestScore) ==
    [caseData EXCEPT
       !.allocatedDCA = bestDCA,
       !.allocationScore = QueueToFixed4(bestScore)]

\* caseData.allocatedDCA = bestDCA; ... caseData.status = 'ALLOCATED';
AllocatedCase(caseData, bestDCA, bestScore) ==
    [caseData EXCEPT
       !.allocatedDCA = bestDCA,
       !.allocationScore = QueueToFixed4(bestScore),
       !.status = "ALLOCATED"]

\* a slip: the first agent is booked without a look at its load
allocateCaseTakesFirst(caseData, workloads, jitter) ==
    [allocated |-> TRUE,
     case |-> AllocatedCase(caseData, DcaOrder[1], 0),
     workloads |-> [workloads EXCEPT
                 ![DcaOrder[1]].current = @ + 1,
                 ![DcaOrder[1]].cases = Append(@, caseData.caseId)]]

\* allocateCase: the case and the workloads it leaves behind, and what it returns
allocateCase(caseData, workloads, jitter) ==
    LET scan == ScanWorkload(caseData.priority, workloads, jitter, 1,
                             [bestDCA |-> Null, bestScore |-> 0])
        bestDCA == scan.bestDCA
    IN  IF bestDCA = Null
        THEN [allocated |-> FALSE, case |-> caseData, workloads |-> workloads]
        ELSE [allocated |-> TRUE,
              case |-> AllocatedCase(caseData, bestDCA, scan.bestScore),
              workloads |-> [workloads EXCEPT
                          ![bestDCA].current = @ + 1,
                          ![bestDCA].cases = Append(@, caseData.caseId)]]

\* the callback of setTimeout(() => allocatePendingCases(), 100) starts to run
TimerFires ==
    /\ Queue
    /\ drain = "idle"
    /\ timers > 0
    /\ timers' = timers - 1
    /\ drain' = "loop"
    /\ UNCHANGED <<server, clock, caseIdCounter, caseRegistry, dcaProfiles, dcaWorkload,
                   allocationQueue, response>>

\* allocatePendingCases: the loop test and step 1 of one iteration (cases are
\* never deleted, so the queue head is always in the registry)
DrainPrioritize(r) ==
    /\ Queue
    /\ drain = "loop"
    /\ IF Len(allocationQueue) = 0
       THEN /\ drain' = "idle"
            /\ UNCHANGED caseRegistry
       ELSE LET caseId == allocationQueue[1]
            IN  /\ drain' = "allocate"
                /\ caseRegistry' =
                     IF caseRegistry[caseId].status = "RECEIVED"
                     THEN [caseRegistry EXCEPT ![caseId] = prioritizeCase(@, r)]
                     ELSE caseRegistry
    /\ UNCHANGED <<server, clock, caseIdCounter, dcaProfiles, dcaWorkload, allocationQueue,
                   timers, response>>

\* a slip: the loop ends after its first allocation attempt
DrainAllocateStopsEarly(jitter) ==
    /\ Queue
    /\ drain = "allocate"
    /\ LET caseId == allocationQueue[1]
       IN  IF caseRegistry[caseId].status = "PRIORITIZED"
           THEN LET r == allocateCase(caseRegistry[caseId], dcaWorkload, jitter)
                IN  /\ caseRegistry' = [caseRegistry EXCEPT ![caseId] = r.case]
                    /\ dcaWorkload' = r.workloads
                    /\ allocationQueue' = IF r.allocated THEN Tail(allocationQueue)
                                          ELSE allocationQueue
                    /\ drain' = "idle"
           ELSE /\ drain' = "loop"
                /\ UNCHANGED <<caseRegistry, dcaWorkload, allocationQueue>>
    /\ UNCHANGED <<server, clock, caseIdCounter, dcaProfiles, timers, response>>

\* allocatePendingCases: step 2 of one iteration
DrainAllocate(jitter) ==
    /\ Queue
    /\ drain = "allocate"
    /\ LET caseId == allocationQueue[1]
       IN  IF caseRegistry[caseId].status = "PRIORITIZED"
           THEN LET r == allocateCase(caseRegistry[caseId], dcaWorkload, jitter)
                IN  /\ caseRegistry' = [caseRegistry EXCEPT ![caseId] = r.case]
                    /\ dcaWorkload' = r.workloads
                    /\ allocationQueue' = IF r.allocated THEN Tail(allocationQueue)
                                          ELSE allocationQueue
                    /\ drain' = IF r.allocated THEN "loop" ELSE "idle"
           ELSE /\ drain' = "loop"
                /\ UNCHANGED <<caseRegistry, dcaWorkload, allocationQueue>>
    /\ UNCHANGED <<server, clock, caseIdCounter, dcaProfiles, timers, response>>

\* the agents a request may name: every registered one and one unknown
RequestDcaIds == DcaIds \cup {"DCA-999"}

\* the cases a manual allocation may name: the first one ingested and one id
\* never issued
ManualIds == {FirstCounter + 1, FirstCounter}

\* POST /api/cases/:caseId/allocate/:dcaId
ManualAllocate(caseId, dcaId) ==
    /\ Queue
    /\ drain = "idle"
    /\ IF caseId \notin CaseIds \/ dcaId \notin DOMAIN dcaWorkload
       THEN /\ response' = [code |-> 404, body |-> <<>>]
            /\ UNCHANGED <<caseRegistry, dcaWorkload>>
       ELSE LET old == caseRegistry[caseId].allocatedDCA
                oldIndex == IF old # Null /\ old \in DOMAIN dcaWorkload
                            THEN IndexOf(dcaWorkload[old].cases, caseId) ELSE 0
                removed == IF oldIndex > 0
                           THEN [dcaWorkload EXCEPT
                                   ![old].cases = RemoveAt(@, oldIndex),
                                   ![old].current = @ - 1]
                           ELSE dcaWorkload
            IN  /\ caseRegistry' = [caseRegistry EXCEPT
                                      ![caseId].allocatedDCA = dcaId,
                                      ![caseId].status = "ALLOCATED"]
                /\ dcaWorkload' = [removed EXCEPT
                                      ![dcaId].cases = Append(@, caseId),
                                      ![dcaId].current = @ + 1]
                /\ response' = [code |-> 200, body |-> <<>>]
    /\ UNCHANGED <<server, clock, caseIdCounter, dcaProfiles, allocationQueue, timers, drain>>

Init ==
    /\ server \in {"dca-api", "part_000"}
    /\ clock = StartClock
    /\ caseIdCounter = FirstCounter
    /\ caseRegistry = <<>>
    /\ dcaProfiles = InitDcaProfiles
    /\ dcaWorkload = InitDcaWorkload
    /\ allocationQueue = <<>>
    /\ timers = 0
    /\ drain = "idle"
    /\ response = [code |-> 0, body |-> <<>>]

Next ==
    \/ \E body \in IngestBodies, noise \in NoiseDraws : Ingest(body, noise)
    \/ \E caseId \in RequestIds : GetCase(caseId)
    \/ \E caseId \in RequestIds, body \in InteractionBodies : LogInteraction(caseId, body)
    \/ \E caseId \in RequestIds : LogDocument(caseId)
    \/ SlaStatus
    \/ \E caseId \in RequestIds : Escalate(caseId)
    \/ \E caseId \in RequestIds, body \in ResolveBodies : Resolve(caseId, body)
    \/ \E t \in Instants : Tick(t)
    \/ \E body \in QueueBodies : QueueIngest(body)
    \/ TimerFires
    \/ \E r \in ProbabilityDraws : DrainPrioritize(r)
    \/ \E jitter \in [DcaIds -> RandomDraws] : DrainAllocate(jitter)
    \/ \E caseId \in ManualIds, dcaId \in RequestDcaIds : ManualAllocate(caseId, dcaId)

Spec == Init /\ [][Next]_vars

\* the event loop runs a callback it has started to its end
FairSpec ==
    /\ Spec
    /\ WF_vars(\E r \in ProbabilityDraws : DrainPrioritize(r))
    /\ WF_vars(\E jitter \in [DcaIds -> RandomDraws] : DrainAllocate(jitter))

----------------------------------------------------------------------------
(* Classification and deadlines over every tier: dca-api.js receives one case,
   of any amount and age around the thresholds, at any of the instants *)

TierBodies ==
    [debtAmount : {1000, 30000, 60000, 150000},
     debtAge : {10, 65, 130, 200},
     geoRegion : {"North-East", "South-West"}]

\* POST /api/cases/ingest, for the first case only
IngestFirst(body, noise) == caseIdCounter = FirstCounter /\ Ingest(body, noise)

TierInit == Init /\ Api

TierNext ==
    \/ \E body \in TierBodies, noise \in NoiseDraws : IngestFirst(body, noise)
    \/ \E t \in Instants : Tick(t)

TierSpec == TierInit /\ [][TierNext]_vars

----------------------------------------------------------------------------
(* Reading the running server's registry *)

Load(d) == IF Api THEN dcaProfiles[d].currentLoad ELSE dcaWorkload[d].current
CaseList(d) == IF Api THEN dcaProfiles[d].cases ELSE dcaWorkload[d].cases
CapacityOf(d) == IF Api THEN dcaProfiles[d].capacity ELSE dcaWorkload[d].capacity

AllAtCapacity == \A d \in DcaIds : Load(d) >= CapacityOf(d)

\* caseData.slaDeadlines; a part_000 case has no such property
SlaDeadlinesOf(caseData) ==
    IF "slaDeadlines" \in DOMAIN caseData THEN caseData.slaDeadlines ELSE NullDeadlines

----------------------------------------------------------------------------
(* Claims *)

\* C1: in every reachable state, the initial one included, every agent's load
\* counter equals the number of case ids in its case list.
LoadEqualsCaseList == \A d \in DcaIds : Load(d) = Len(CaseList(d))

\* C2: after any sequence of ingests, queue drains and manual reallocations every
\* agent has 0 <= load <= capacity.
LoadWithinCapacity == \A d \in DcaIds : 0 <= Load(d) /\ Load(d) <= CapacityOf(d)

\* the cases the engine allocates in this step and the agent it chose: the case an
\* ingest of dca-api.js creates, or the queue head inside allocatePendingCases
EngineChose(c, d) ==
    /\ c \in DOMAIN caseRegistry'
    /\ caseRegistry'[c].allocatedDCA = d
    /\ \/ Api /\ c \notin CaseIds
       \/ Queue /\ drain = "allocate" /\ c \in CaseIds /\ caseRegistry[c].allocatedDCA # d

\* the engine tries to allocate case c in this step
EngineAttempt(c) ==
    \/ Api /\ c \notin CaseIds /\ c \in DOMAIN caseRegistry'
    \/ Queue /\ drain = "allocate" /\ Len(allocationQueue) > 0 /\ c = allocationQueue[1]
         /\ caseRegistry[c].status = "PRIORITIZED"

\* C3: the engine never selects an agent whose load has reached its capacity at
\* the moment of selection, and when every agent is at capacity the attempt
\* chooses no agent and books nothing.
EngineRespectsCapacity ==
    [][/\ \A c \in DOMAIN caseRegistry', d \in DcaIds :
            EngineChose(c, d) => Load(d) < CapacityOf(d)
       /\ \A c \in DOMAIN caseRegistry' :
            EngineAttempt(c) /\ AllAtCapacity =>
                /\ caseRegistry'[c].allocatedDCA = Null
                /\ dcaProfiles' = dcaProfiles
                /\ dcaWorkload' = dcaWorkload]_vars

\* C3 witness: an ingest found every agent full and left its case unallocated,
\* after an earlier allocation that had skipped the full DCA-001
NoCapacityReached ==
    /\ Api
    /\ AllAtCapacity
    /\ \E c \in CaseIds : caseRegistry[c].allocatedDCA = Null /\ caseRegistry[c].status = "RECEIVED"
    /\ \E c \in CaseIds :
          /\ caseRegistry[c].allocatedDCA = "DCA-002"
          /\ Len(caseRegistry[c].allocationCandidates) = 1

\* C4: once a case is RESOLVED no later call changes its status.
ResolvedIsTerminal ==
    [][\A c \in CaseIds :
          caseRegistry[c].status = "RESOLVED" => caseRegistry'[c].status = "RESOLVED"]_vars

NonTerminal == {"RECEIVED", "PRIORITIZED", "ALLOCATED", "IN_PROGRESS", "ESCALATED"}

LifecycleEdges ==
    {<<"RECEIVED", "PRIORITIZED">>, <<"PRIORITIZED", "ALLOCATED">>,
     <<"ALLOCATED", "IN_PROGRESS">>, <<"IN_PROGRESS", "ESCALATED">>,
     <<"IN_PROGRESS", "RESOLVED">>, <<"ESCALATED", "IN_PROGRESS">>,
     <<"ESCALATED", "RESOLVED">>}
      \cup {<<st, "ESCALATED">> : st \in NonTerminal}
      \cup {<<st, "RESOLVED">> : st \in NonTerminal}

\* C5: every change of a case's status follows an edge of the lifecycle graph.
StatusFollowsLifecycle ==
    [][\A c \in CaseIds :
          caseRegistry'[c].status # caseRegistry[c].status =>
              <<caseRegistry[c].status, caseRegistry'[c].status>> \in LifecycleEdges]_vars

\* C6: a case that reaches ALLOCATED was PRIORITIZED immediately before (a case
\* an ingest creates is RECEIVED before the handler allocates it).
AllocatedOnlyFromPrioritized ==
    [][\A c \in DOMAIN caseRegistry' :
          /\ caseRegistry'[c].status = "ALLOCATED"
          /\ (c \in CaseIds => caseRegistry[c].status # "ALLOCATED")
          => c \in CaseIds /\ caseRegistry[c].status = "PRIORITIZED"]_vars

AllocatedStatuses == {"ALLOCATED", "IN_PROGRESS", "ESCALATED", "RESOLVED"}

\* C7: in every reachable state a case with a non-null allocated agent has status
\* ALLOCATED, IN_PROGRESS, ESCALATED or RESOLVED.
AllocatedImpliesStatus ==
    \A c \in CaseIds :
        caseRegistry[c].allocatedDCA # Null => caseRegistry[c].status \in AllocatedStatuses

\* C7 witness: allocated cases in each of the four statuses have been seen; here
\* one that was allocated by the engine and then escalated, next to one allocated
\* and untouched
AllocatedThenEscalated ==
    /\ \E c \in CaseIds :
          caseRegistry[c].allocatedDCA # Null /\ caseRegistry[c].status = "ESCALATED"
    /\ \E c \in CaseIds :
          caseRegistry[c].allocatedDCA # Null /\ caseRegistry[c].status = "ALLOCATED"

\* C8: in every reachable state a case has a deadline set if and only if it has an
\* allocated agent, manual overrides included.
DeadlinesIffAllocated ==
    \A c \in CaseIds :
        SlaDeadlinesOf(caseRegistry[c]) # NullDeadlines <=> caseRegistry[c].allocatedDCA # Null

\* the cases flagged as breached that are allocated to d
BreachedCasesOf(d) ==
    {c \in CaseIds : caseRegistry[c].slaBreached /\ caseRegistry[c].allocatedDCA = d}

\* C9: however many times the SLA evaluation runs, an agent's breach counter rises
\* exactly once for each of its breached cases.
BreachCountedOnce ==
    Api => \A d \in DcaIds :
              dcaProfiles[d].slaBreaches = InitSlaBreaches(d) + Cardinality(BreachedCasesOf(d))

\* C10: the SLA evaluation answers with one entry for every case that is allocated
\* and not RESOLVED and for no other case, and an entry says breached exactly when
\* now is strictly later than the case's resolution deadline.
SlaStatusIsExact ==
    [][SlaStatus =>
        LET body == response'.body
            watched == {c \in CaseIds : caseRegistry[c].allocatedDCA # Null
                                        /\ caseRegistry[c].status # "RESOLVED"}
        IN  /\ {body[i].caseId : i \in 1..Len(body)} = watched
            /\ Len(body) = Cardinality(watched)
            /\ \A i \in 1..Len(body) :
                  body[i].breached <=>
                      clock > caseRegistry[body[i].caseId].slaDeadlines.resolution]_vars

\* C10 witness: an evaluation answered with a breached and an unbreached entry and
\* left out a case that is not allocated
SlaStatusAnswered ==
    /\ Api
    /\ \E i, j \in 1..Len(response.body) :
          response.body[i].breached /\ ~response.body[j].breached
    /\ \E c \in CaseIds :
          /\ caseRegistry[c].allocatedDCA = Null
          /\ \A i \in 1..Len(response.body) : response.body[i].caseId # c

\* C11: when every agent is at capacity an allocation attempt leaves the case with
\* no allocated agent and no deadlines, and leaves every agent's load, case list
\* and statistics as they were.
NoCapacityChangesNothing ==
    [][\A c \in DOMAIN caseRegistry' :
          EngineAttempt(c) /\ AllAtCapacity =>
              /\ caseRegistry'[c].allocatedDCA = Null
              /\ SlaDeadlinesOf(caseRegistry'[c]) = NullDeadlines
              /\ \A d \in DcaIds :
                    /\ dcaProfiles'[d] = dcaProfiles[d]
                    /\ dcaWorkload'[d] = dcaWorkload[d]]_vars

\* C11 witness: allocatePendingCases met a full registry, stopped, and left the
\* queue head classified and unallocated
QueueNoCapacity ==
    /\ Queue
    /\ AllAtCapacity
    /\ drain = "idle"
    /\ Len(allocationQueue) > 0
    /\ caseRegistry[allocationQueue[1]].status = "PRIORITIZED"
    /\ caseRegistry[allocationQueue[1]].allocatedDCA = Null

\* C12: a case whose allocation attempt finds every agent at capacity is left in
\* status PRIORITIZED, not RECEIVED.
NoCapacityLeavesPrioritized ==
    [][\A c \in DOMAIN caseRegistry' :
          EngineAttempt(c) /\ AllAtCapacity => caseRegistry'[c].status = "PRIORITIZED"]_vars

\* C13: when some agent has load < capacity at the time of an ingest, the case as
\* the ingest handler answers with it is ALLOCATED and has an allocated agent.
IngestAnswersAllocated ==
    [][\A c \in DOMAIN caseRegistry' \ CaseIds :
          ~AllAtCapacity =>
              /\ caseRegistry'[c].status = "ALLOCATED"
              /\ caseRegistry'[c].allocatedDCA # Null]_vars

\* the tier the thresholds give: first match wins
TierOf(amount, age) ==
    IF amount > 100000 \/ age > 180 THEN "CRITICAL"
    ELSE IF amount > 50000 \/ age > 120 THEN "HIGH"
    ELSE IF amount > 20000 \/ age > 60 THEN "MEDIUM"
    ELSE "LOW"

\* C14: the tier of every classified case is CRITICAL if amount > 100000 or
\* age > 180, otherwise HIGH if amount > 50000 or age > 120, otherwise MEDIUM if
\* amount > 20000 or age > 60, otherwise LOW.
PriorityFollowsThresholds ==
    \A c \in CaseIds :
        caseRegistry[c].priority # Null =>
            caseRegistry[c].priority = TierOf(caseRegistry[c].debtAmount, caseRegistry[c].debtAge)

\* agent identifiers in ascending order are the registry's insertion order
AgentRank(d) == IndexOf(DcaOrder, d)

\* the finalScore the running server computes in this step for case c and agent e
EngineScore(c, e, jitter) ==
    IF Api THEN finalScore(caseRegistry'[c], e, dcaProfiles[e])
    ELSE queueFinalScore(dcaWorkload[e], caseRegistry[c].priority, jitter[e])

\* C15: the agent the engine chooses has a finalScore greater than or equal to
\* that of every other agent with load < capacity, and of several agents that
\* share the greatest finalScore the one with the smallest identifier is chosen.
ChoosesGreatestScore ==
    [][\A jitter \in [DcaIds -> RandomDraws] :
          Api \/ DrainAllocate(jitter) =>
              \A c \in DOMAIN caseRegistry', d \in DcaIds :
                  EngineChose(c, d) =>
                      \A e \in DcaIds \ {d} :
                          Load(e) < CapacityOf(e) =>
                              /\ EngineScore(c, d, jitter) >= EngineScore(c, e, jitter)
                              /\ EngineScore(c, d, jitter) = EngineScore(c, e, jitter)
                                    => AgentRank(d) < AgentRank(e)]_vars

\* C15 witness: part_000 with DCA-001 and DCA-002 both one below capacity gave a
\* case to DCA-001 at the lowest score its draw allows, so DCA-002 scored no
\* less and the two tied
TieWentToFirst ==
    /\ Queue
    /\ dcaWorkload["DCA-001"].current = QueueCapacity
    /\ dcaWorkload["DCA-002"].current = QueueCapacity - 1
    /\ \E c \in CaseIds \ ManualIds :
          /\ caseRegistry[c].allocatedDCA = "DCA-001"
          /\ dcaWorkload["DCA-001"].cases = <<c>>
          /\ caseRegistry[c].allocationScore =
                QueueToFixed4(queueFinalScore(
                    [capacity |-> QueueCapacity, current |-> QueueCapacity - 1, cases |-> <<>>],
                    caseRegistry[c].priority, 0))

\* C16: allocation is deterministic: every run of the allocation function on the
\* case and registry of this step, whatever it draws, leaves the case with the
\* same agent and the same recorded score.
AllocateIsDeterministic ==
    [][\A c \in CaseIds, d \in DcaIds :
          Queue /\ EngineChose(c, d) =>
              \A jitter \in [DcaIds -> RandomDraws] :
                  LET run == allocateCase(caseRegistry[c], dcaWorkload, jitter).case
                  IN  /\ run.allocatedDCA = caseRegistry'[c].allocatedDCA
                      /\ run.allocationScore = caseRegistry'[c].allocationScore]_vars

\* a part_000 case has no auditTrail property
AuditTrailOf(caseData) ==
    IF "auditTrail" \in DOMAIN caseData THEN caseData.auditTrail ELSE <<>>

\* the manual allocation of case c onto agent t succeeds in this step
ManualSucceeds(c, t) == ManualAllocate(c, t) /\ response'.code = 200

\* how often case id c stands in the case lists after this step
Occurrences(c) ==
    Cardinality({p \in DcaIds \X (1..MaxQueueCases) :
                    /\ p[2] <= Len(dcaWorkload'[p[1]].cases)
                    /\ dcaWorkload'[p[1]].cases[p[2]] = c})

\* C17: after a successful manual reallocation the case id is in the target's
\* case list and in no other list, the previous agent's load has dropped by one
\* and the target's has risen by one (no net change when they are the same
\* agent), and no case id stands more than once in the case lists.
ManualMovesCase ==
    [][\A c \in ManualIds, t \in RequestDcaIds :
          ManualSucceeds(c, t) =>
              LET old == caseRegistry[c].allocatedDCA
              IN  /\ c \in Range(dcaWorkload'[t].cases)
                  /\ \A e \in DcaIds \ {t} : c \notin Range(dcaWorkload'[e].cases)
                  /\ \A e \in DcaIds :
                        dcaWorkload'[e].current = dcaWorkload[e].current
                            + (IF e = t THEN 1 ELSE 0) - (IF e = old THEN 1 ELSE 0)
                  /\ \A x \in DOMAIN caseRegistry' : Occurrences(x) <= 1]_vars

\* C17 witness: the first case, which the engine had given to DCA-002, has been
\* moved to DCA-001 by a manual allocation
ManuallyMoved ==
    /\ Queue
    /\ response.code = 200
    /\ \E c \in ManualIds \cap CaseIds :
          /\ caseRegistry[c].allocatedDCA = "DCA-001"
          /\ caseRegistry[c].allocationScore # -1
          /\ c \in Range(dcaWorkload["DCA-001"].cases)
          /\ dcaWorkload["DCA-002"].current = InitCurrent("DCA-002")

\* C18: a manual reallocation onto an agent whose load already equals its
\* capacity is rejected and leaves the case and every agent unchanged.
ManualRejectedWhenFull ==
    [][\A c \in ManualIds \cap CaseIds, t \in DcaIds :
          ManualAllocate(c, t) /\ dcaWorkload[t].current >= dcaWorkload[t].capacity =>
              /\ response'.code # 200
              /\ caseRegistry' = caseRegistry
              /\ dcaWorkload' = dcaWorkload]_vars

\* C19: every manual reallocation appends to the case's audit trail one entry,
\* and that entry is not the engine's CASE_ALLOCATED.
ManualIsAudited ==
    [][\A c \in ManualIds, t \in RequestDcaIds :
          ManualSucceeds(c, t) =>
              LET before == AuditTrailOf(caseRegistry[c])
                  after == AuditTrailOf(caseRegistry'[c])
              IN  /\ Len(after) = Len(before) + 1
                  /\ SubSeq(after, 1, Len(before)) = before
                  /\ after[Len(after)].action # "CASE_ALLOCATED"]_vars

\* C20: the audit trail of every case is append-only: across every step the
\* previous trail is a prefix of the new one.
AuditTrailAppendOnly ==
    [][\A c \in CaseIds :
          LET before == AuditTrailOf(caseRegistry[c])
              after == AuditTrailOf(caseRegistry'[c])
          IN  /\ Len(before) <= Len(after)
              /\ SubSeq(after, 1, Len(before)) = before]_vars

\* C20 witness: a trail that grew by a compliance note and an interaction entry
\* on top of the creation and allocation entries
TrailGrew ==
    /\ Api
    /\ \E c \in CaseIds :
          LET trail == caseRegistry[c].auditTrail
          IN  /\ Len(trail) >= 4
              /\ trail[1].action = "CASE_CREATED"
              /\ trail[2].action = "CASE_ALLOCATED"
              /\ trail[3].action = "SOP_VIOLATION"
              /\ trail[4].action = "INTERACTION_LOGGED"

\* C21: every status transition of a case appends exactly one audit entry to that
\* case's trail.
TransitionAppendsOneEntry ==
    [][\A c \in CaseIds :
          caseRegistry'[c].status # caseRegistry[c].status =>
              Len(AuditTrailOf(caseRegistry'[c])) = Len(AuditTrailOf(caseRegistry[c])) + 1]_vars

\* local time t, in minutes since midnight, lies outside 09:00-18:00
OutsideContactHours(t) == t % 1440 < 9 * 60 \/ t % 1440 > 18 * 60

\* the actions of the entries a step appends to the trail of case c
AppendedActions(c) ==
    LET before == caseRegistry[c].auditTrail
        after == caseRegistry'[c].auditTrail
    IN  [i \in 1..(Len(after) - Len(before)) |-> after[Len(before) + i].action]

\* C22: logging a CALL at local time t appends SOP_VIOLATION exactly when t lies
\* outside 09:00-18:00; the interaction is recorded and INTERACTION_LOGGED is
\* appended in every case; an interaction that is not a CALL never yields
\* SOP_VIOLATION.
SopViolationIffOutsideHours ==
    [][\A c \in CaseIds, body \in InteractionBodies :
          LogInteraction(c, body) =>
              /\ Len(caseRegistry'[c].interactions) = Len(caseRegistry[c].interactions) + 1
              /\ AppendedActions(c) =
                    IF body.type = "CALL" /\ OutsideContactHours(clock)
                    THEN <<"SOP_VIOLATION", "INTERACTION_LOGGED">>
                    ELSE <<"INTERACTION_LOGGED">>]_vars

\* C23: resolving a case adds the recovered amount to the allocated agent's
\* cumulative recovered amount exactly when the case has an allocated agent and
\* the amount is positive; otherwise every agent's cumulative amount is
\* unchanged; the case becomes RESOLVED in all cases.
RecoveryAddedWhenPositive ==
    [][\A c \in CaseIds, body \in ResolveBodies :
          Resolve(c, body) =>
              /\ caseRegistry'[c].status = "RESOLVED"
              /\ \A d \in DcaIds :
                    dcaProfiles'[d].recoveredAmount = dcaProfiles[d].recoveredAmount
                        + (IF d = caseRegistry[c].allocatedDCA /\ body.recoveredAmount > 0
                           THEN body.recoveredAmount ELSE 0)]_vars

\* C24: for every case with a deadline set, firstAction < followUp < resolution.
DeadlinesInOrder ==
    \A c \in CaseIds :
        LET sla == SlaDeadlinesOf(caseRegistry[c])
        IN  sla # NullDeadlines =>
                sla.firstAction < sla.followUp /\ sla.followUp < sla.resolution

\* C24 witness: a LOW case, allocated after the server's start, carries deadlines
LowTierWithDeadlines ==
    /\ Api
    /\ \E c \in CaseIds :
          /\ caseRegistry[c].priority = "LOW"
          /\ caseRegistry[c].slaDeadlines # NullDeadlines
          /\ caseRegistry[c].slaDeadlines.firstAction > StartClock + 96 * 60

\* C25: once a case's deadlines are set no step changes any of the three.
DeadlinesNeverChange ==
    [][\A c \in CaseIds :
          SlaDeadlinesOf(caseRegistry[c]) # NullDeadlines =>
              SlaDeadlinesOf(caseRegistry'[c]) = SlaDeadlinesOf(caseRegistry[c])]_vars

\* C25 witness: a case allocated when the server started still carries the
\* deadlines of that instant after it was escalated, found breached by an SLA
\* evaluation and resolved
DeadlinesKept ==
    /\ Api
    /\ clock > StartClock
    /\ \E c \in CaseIds :
          /\ caseRegistry[c].status = "RESOLVED"
          /\ caseRegistry[c].slaBreached
          /\ \E i \in 1..Len(caseRegistry[c].auditTrail) :
                caseRegistry[c].auditTrail[i].action = "ESCALATION"
          /\ caseRegistry[c].slaDeadlines = DeadlinesAt(StartClock, caseRegistry[c].priority)

\* the offsets of a tier, in minutes: first action, follow-up, resolution
TierOffsets(tier) ==
    CASE tier = "CRITICAL" -> <<24 * 60, 2 * 1440, 7 * 1440>>
      [] tier = "HIGH" -> <<48 * 60, 3 * 1440, 15 * 1440>>
      [] tier = "MEDIUM" -> <<72 * 60, 4 * 1440, 20 * 1440>>
      [] tier = "LOW" -> <<96 * 60, 7 * 1440, 30 * 1440>>

\* C30: the deadlines attached at allocation are the allocation instant plus the
\* offsets of the tier stored on the case: CRITICAL 24h / 2d / 7d, HIGH 48h / 3d /
\* 15d, MEDIUM 72h / 4d / 20d, LOW 96h / 7d / 30d.
DeadlinesFollowTier ==
    [][\A c \in DOMAIN caseRegistry' \ CaseIds :
          caseRegistry'[c].allocatedDCA # Null =>
              LET off == TierOffsets(caseRegistry'[c].priority)
                  sla == caseRegistry'[c].slaDeadlines
              IN  /\ sla.firstAction = clock + off[1]
                  /\ sla.followUp = clock + off[2]
                  /\ sla.resolution = clock + off[3]]_vars

\* C30 witness: a case that is HIGH by its age alone, allocated a week after the
\* server's start, has its first action due 48 hours later
HighTierDeadlines ==
    /\ Api
    /\ \E c \in CaseIds :
          /\ caseRegistry[c].priority = "HIGH"
          /\ caseRegistry[c].debtAmount <= 50000
          /\ caseRegistry[c].allocatedDCA # Null
          /\ caseRegistry[c].slaDeadlines.firstAction = StartClock + 7 * 1440 + 48 * 60

EngineBooksOnce ==
    [][\A c \in CaseIds, d \in DcaIds :
          Queue /\ EngineChose(c, d) =>
              /\ caseRegistry[c].allocatedDCA = Null
              /\ \A e \in DcaIds : c \notin Range(dcaWorkload[e].cases)
              /\ Occurrences(c) = 1
              /\ dcaWorkload'[d].current <= dcaWorkload'[d].capacity]_vars

\* C27 witness: one callback has allocated two cases and emptied the queue while
\* another callback is still to come
CallbackPendingAfterDrain ==
    /\ Queue
    /\ timers > 0
    /\ drain = "idle"
    /\ allocationQueue = <<>>
    /\ \E c1, c2 \in CaseIds :
          /\ c1 # c2
          /\ caseRegistry[c1].allocationScore # -1
          /\ caseRegistry[c2].allocationScore # -1

\* C28: every run of allocatePendingCases comes to its end.
DrainTerminates == (drain # "idle") ~> (drain = "idle")

\* C29: a successful engine allocation raises the chosen agent's load by one and
\* appends the case id to its list, leaves every other agent unchanged, and
\* leaves the case ALLOCATED to that agent with deadlines set and a new
\* CASE_ALLOCATED audit entry that names the agent.
EngineAllocationEffect ==
    [][\A c \in DOMAIN caseRegistry', d \in DcaIds :
          EngineChose(c, d) =>
              LET trail == AuditTrailOf(caseRegistry'[c])
              IN  /\ dcaProfiles'[d] = IF Api THEN [dcaProfiles[d] EXCEPT
                                                     !.currentLoad = @ + 1,
                                                     !.cases = Append(@, c)]
                                       ELSE dcaProfiles[d]
                  /\ dcaWorkload'[d] = IF Queue THEN [dcaWorkload[d] EXCEPT
                                                       !.current = @ + 1,
                                                       !.cases = Append(@, c)]
                                       ELSE dcaWorkload[d]
                  /\ \A e \in DcaIds \ {d} :
                        dcaProfiles'[e] = dcaProfiles[e] /\ dcaWorkload'[e] = dcaWorkload[e]
                  /\ caseRegistry'[c].status = "ALLOCATED"
                  /\ SlaDeadlinesOf(caseRegistry'[c]) # NullDeadlines
                  /\ Len(trail) > Len(IF c \in CaseIds THEN AuditTrailOf(caseRegistry[c]) ELSE <<>>)
                  /\ trail[Len(trail)].action = "CASE_ALLOCATED"
                  /\ trail[Len(trail)].details[1] = d]_vars

\* geoRegion of a case; a part_000 case has none
GeoRegionOf(caseData) ==
    IF "geoRegion" \in DOMAIN caseData THEN caseData.geoRegion ELSE "Unknown"

\* the suitability score of the formula, in ten-thousandths, for an agent with
\* the attributes the registry of dca-api.js gives its identifier
ClaimedScore(tier, region, d, load, capacity) ==
    30 * historicalRecoveryRate(d)
      + 25 * (IF tier = "CRITICAL" /\ "High-Value" \in specialization(d) THEN 100 ELSE 70)
      + 20 * (IF geoRegion(d) = region THEN 100 ELSE 80)
      - 15 * ((load * 100) \div capacity)
      - 10 * (100 - complianceScore(d))

\* priorityFactor of the formula, in tenths
ClaimedPriorityFactor(tier) ==
    CASE tier = "CRITICAL" -> 15 [] tier = "HIGH" -> 13 [] tier = "MEDIUM" -> 10
      [] tier = "LOW" -> 8

\* C31: for every eligible agent the finalScore the engine computes is
\* recoveryProbability * score * priorityFactor, where score = 0.30 *
\* historicalRecoveryRate + 0.25 * specializationMatch + 0.20 * geoMatch - 0.15 *
\* load / capacity - 0.10 * (1 - complianceScore) and priorityFactor is 1.5, 1.3,
\* 1.0, 0.8 for CRITICAL, HIGH, MEDIUM, LOW.
ScoreFollowsFormula ==
    [][\A jitter \in [DcaIds -> RandomDraws] :
          Api \/ DrainAllocate(jitter) =>
              \A c \in DOMAIN caseRegistry', d \in DcaIds :
                  EngineChose(c, d) =>
                      LET caseData == caseRegistry'[c]
                      IN  \A e \in DcaIds :
                              Load(e) < CapacityOf(e) =>
                                  EngineScore(c, e, jitter) =
                                      caseData.recoveryProbability
                                        * ClaimedScore(caseData.priority, GeoRegionOf(caseData),
                                                       e, Load(e), CapacityOf(e))
                                        * ClaimedPriorityFactor(caseData.priority)]_vars

\* C32: the candidate list recorded on an allocated case has exactly one entry
\* for each agent that had load < capacity at allocation time, none for an agent
\* at capacity, and holds the chosen agent with the greatest finalScore of the
\* list.
CandidatesAreTheEligible ==
    [][\A c \in DOMAIN caseRegistry' \ CaseIds :
          Api /\ caseRegistry'[c].allocatedDCA # Null =>
              LET list == caseRegistry'[c].allocationCandidates
                  eligible == {d \in DcaIds : dcaProfiles[d].currentLoad < dcaProfiles[d].capacity}
              IN  /\ {list[i].dcaId : i \in 1..Len(list)} = eligible
                  /\ Len(list) = Cardinality(eligible)
                  /\ \E i \in 1..Len(list) :
                        /\ list[i].dcaId = caseRegistry'[c].allocatedDCA
                        /\ \A j \in 1..Len(list) : list[i].finalScore >= list[j].finalScore]_vars

\* C32 witness: one case was allocated out of two candidates to the second of
\* them, and a later case had the remaining agent as its only candidate
SecondCandidateChosen ==
    /\ Api
    /\ \E c1, c2 \in CaseIds :
          /\ Len(caseRegistry[c1].allocationCandidates) = 2
          /\ caseRegistry[c1].allocatedDCA = caseRegistry[c1].allocationCandidates[2].dcaId
          /\ Len(caseRegistry[c2].allocationCandidates) = 1
          /\ caseRegistry[c2].allocatedDCA = caseRegistry[c2].allocationCandidates[1].dcaId
          /\ caseRegistry[c2].allocatedDCA # caseRegistry[c1].allocatedDCA

\* the interactions of a case that ended in a dispute
DisputedInteractions(caseData) ==
    {i \in 1..Len(caseData.interactions) : caseData.interactions[i].result = "DISPUTE"}

\* C33: for every case the number of dispute records equals the number of logged
\* interactions whose result is DISPUTE, and every dispute record is PENDING.
DisputesMatchInteractions ==
    \A c \in CaseIds :
        "disputes" \in DOMAIN caseRegistry[c] =>
            /\ Len(caseRegistry[c].disputes) = Cardinality(DisputedInteractions(caseRegistry[c]))
            /\ \A i \in 1..Len(caseRegistry[c].disputes) :
                  caseRegistry[c].disputes[i].status = "PENDING"

\* C33 witness: a case with two interactions, one of them a dispute
OneDisputeOfTwo ==
    /\ Api
    /\ \E c \in CaseIds :
          /\ Len(caseRegistry[c].interactions) = 2
          /\ Len(caseRegistry[c].disputes) = 1
          /\ caseRegistry[c].interactions[1].result # "DISPUTE"

\* case.allocatedDCA; null until an allocation
AllocatedDcaOf(c) == caseRegistry[c].allocatedDCA

QueueHoldsThePending ==
    Queue /\ drain = "idle" =>
        /\ Range(allocationQueue) =
              {c \in CaseIds : caseRegistry[c].status \in {"RECEIVED", "PRIORITIZED"}}
        /\ \A i, j \in 1..Len(allocationQueue) :
              allocationQueue[i] = allocationQueue[j] => i = j

\* allocatePendingCases returns in this step
DrainReturns == Queue /\ drain # "idle" /\ drain' = "idle"

\* C36: the drain allocates in ingest order: the engine allocates a queued case
\* only while it is the head of the queue, every case ingested before it having
\* been allocated, and when allocatePendingCases returns either the queue is
\* empty or its head is PRIORITIZED and every agent is at capacity.
DrainIsFifo ==
    [][/\ \A c \in CaseIds, d \in DcaIds :
            Queue /\ EngineChose(c, d) =>
                /\ allocationQueue # <<>>
                /\ c = allocationQueue[1]
                /\ allocationQueue' = Tail(allocationQueue)
                /\ \A x \in CaseIds : x < c => caseRegistry[x].status = "ALLOCATED"
       /\ DrainReturns =>
            \/ allocationQueue' = <<>>
            \/ /\ caseRegistry'[allocationQueue'[1]].status = "PRIORITIZED"
               /\ \A d \in DcaIds : dcaWorkload'[d].current >= dcaWorkload'[d].capacity]_vars

\* C36 witness: a drain has returned with a case left at the head of the queue
\* for want of capacity, after the engine had allocated three cases in order
DrainReturnedOnSaturation ==
    /\ Queue
    /\ drain = "idle"
    /\ Len(allocationQueue) = 1
    /\ caseRegistry[allocationQueue[1]].status = "PRIORITIZED"
    /\ Cardinality({c \in CaseIds : caseRegistry[c].status = "ALLOCATED"
                                      /\ caseRegistry[c].allocationScore # -1}) = 3
    /\ \A c \in CaseIds : caseRegistry[c].status = "ALLOCATED" => c < allocationQueue[1]

\* C37: resolving a case releases no capacity: resolve leaves every agent's load
\* and case list unchanged, and a load falls only in a manual reallocation.
ResolveKeepsLoad ==
    [][/\ \A c \in RequestIds, body \in ResolveBodies :
            Resolve(c, body) =>
                \A d \in DcaIds :
                    /\ dcaProfiles'[d].currentLoad = dcaProfiles[d].currentLoad
                    /\ dcaProfiles'[d].cases = dcaProfiles[d].cases
       /\ \A d \in DcaIds :
            \/ dcaProfiles'[d].currentLoad < dcaProfiles[d].currentLoad
            \/ dcaWorkload'[d].current < dcaWorkload[d].current
            => \E c \in ManualIds, t \in RequestDcaIds : ManualSucceeds(c, t)]_vars

\* C37 witness: a RESOLVED case still holds its agent's only slot, and every
\* agent is full
ResolvedCaseHoldsSlot ==
    /\ Api
    /\ AllAtCapacity
    /\ \E c \in CaseIds :
          /\ caseRegistry[c].status = "RESOLVED"
          /\ caseRegistry[c].allocatedDCA \in DcaIds
          /\ c \in Range(dcaProfiles[caseRegistry[c].allocatedDCA].cases)
          /\ dcaProfiles[caseRegistry[c].allocatedDCA].currentLoad = Capacity

\* the positive recovered amounts of the cases of S, summed
RECURSIVE SumRecovered(_)
SumRecovered(S) ==
    IF S = {} THEN 0
    ELSE LET c == CHOOSE x \in S : TRUE
         IN  Max(caseRegistry[c].recoveredAmount, 0) + SumRecovered(S \ {c})

\* the cases resolved while allocated to agent d
ResolvedCasesOf(d) ==
    {c \in CaseIds : caseRegistry[c].status = "RESOLVED" /\ caseRegistry[c].allocatedDCA = d}

\* C38: an agent's cumulative recovered amount equals its initial value plus the
\* sum, over the distinct cases resolved while allocated to it, of the case's
\* positive recovered amount: each case contributes at most once.
RecoveryCountedOnce ==
    Api => \A d \in DcaIds :
              dcaProfiles[d].recoveredAmount =
                  InitRecoveredAmount(d) + SumRecovered(ResolvedCasesOf(d))

\* C39: a case's breach flag starts false, is never reset once true, and turns
\* true only in an SLA evaluation that runs strictly after the case's resolution
\* deadline while the case is not RESOLVED.
BreachFlagJustified ==
    [][Api =>
        /\ \A c \in DOMAIN caseRegistry' \ CaseIds : ~caseRegistry'[c].slaBreached
        /\ \A c \in CaseIds :
              /\ caseRegistry[c].slaBreached => caseRegistry'[c].slaBreached
              /\ ~caseRegistry[c].slaBreached /\ caseRegistry'[c].slaBreached =>
                    /\ SlaStatus
                    /\ caseRegistry[c].slaDeadlines # NullDeadlines
                    /\ clock > caseRegistry[c].slaDeadlines.resolution
                    /\ caseRegistry[c].status # "RESOLVED"]_vars

\* C39 witness: an evaluation has flagged one case and left unflagged a RESOLVED
\* one whose deadline had passed no later
ResolvedCaseNotFlagged ==
    /\ Api
    /\ \E c1, c2 \in CaseIds :
          /\ caseRegistry[c1].slaBreached
          /\ \E i \in 1..Len(response.body) :
                response.body[i] = [caseId |-> c1,
                                    allocatedDCA |-> caseRegistry[c1].allocatedDCA,
                                    breached |-> TRUE, hoursRemaining |-> 0]
          /\ caseRegistry[c2].status = "RESOLVED"
          /\ ~caseRegistry[c2].slaBreached
          /\ caseRegistry[c2].slaDeadlines # NullDeadlines
          /\ caseRegistry[c2].slaDeadlines.resolution <= caseRegistry[c1].slaDeadlines.resolution

====
